---------------------------- MODULE Spec2Model ----------------------------
(***************************************************************************)
(* The filter-and-render engine of the boutique hotel finder.              *)
(*                                                                         *)
(* Two sibling pages exist in the repository: the full one (src/main.js)   *)
(* and the simplified one (src/unnamed/part_000).  A behaviour of this     *)
(* module is one page session of one of them: `variant' says which page    *)
(* was opened, `hasObserver' whether the runtime offers                    *)
(* IntersectionObserver, and the document served as hotels.json is drawn   *)
(* from Catalogs when the load completes.                                  *)
(*                                                                         *)
(* Text that the code lowercases, trims, joins or searches is a sequence   *)
(* of one-character strings; text that is only displayed is a string.      *)
(* Browser timers are untimed: a timeout that was set and not cleared may  *)
(* run at any later step, which covers every real delay.                   *)
(***************************************************************************)
EXTENDS Integers, Sequences, FiniteSets, TLC

(***************************************************************************)
(* Bounds of the model.                                                    *)
(***************************************************************************)
\* Announcement elements that may be in the document at once; a handler
\* that would add one more is not taken until a cleanup timer has run.
MaxAnnouncers == 1

(***************************************************************************)
(* Program constants.                                                      *)
(***************************************************************************)
\* maxPrice of a fresh configuration, and what resetFilters restores
DefaultMaxPrice == 2500
\* The delays (300 ms for the search box, 150 ms for the price slider, 1000 ms
\* for the cleanup of an announcement) do not appear: timers are untimed.
\* The slider's keydown listener is left out: its 10 ms timeout only rewrites
\* the price label from the slider's value, which the input listener of the
\* same key press has written already.

(***************************************************************************)
(* String primitives of the JavaScript runtime.                            *)
(***************************************************************************)
UpperToLower ==
    [A |-> "a", B |-> "b", C |-> "c", D |-> "d", E |-> "e", F |-> "f",
     G |-> "g", H |-> "h", I |-> "i", J |-> "j", K |-> "k", L |-> "l",
     M |-> "m", N |-> "n", O |-> "o", P |-> "p", Q |-> "q", R |-> "r",
     S |-> "s", T |-> "t", U |-> "u", V |-> "v", W |-> "w", X |-> "x",
     Y |-> "y", Z |-> "z"]

\* String.prototype.toLowerCase
toLowerCase(s) ==
    [i \in 1..Len(s) |->
        IF s[i] \in DOMAIN UpperToLower THEN UpperToLower[s[i]] ELSE s[i]]

WhiteSpace == {" "}

RECURSIVE trimStart(_)
trimStart(s) ==
    IF s # <<>> /\ Head(s) \in WhiteSpace THEN trimStart(Tail(s)) ELSE s

RECURSIVE trimEnd(_)
trimEnd(s) ==
    IF s # <<>> /\ s[Len(s)] \in WhiteSpace
    THEN trimEnd(SubSeq(s, 1, Len(s) - 1))
    ELSE s

\* String.prototype.trim
trim(s) == trimEnd(trimStart(s))

\* String.prototype.includes
includes(hay, needle) ==
    \E i \in 0..(Len(hay) - Len(needle)) :
        SubSeq(hay, i + 1, i + Len(needle)) = needle

\* Array.prototype.join with a separator
RECURSIVE join(_, _)
join(parts, sep) ==
    IF parts = <<>> THEN <<>>
    ELSE IF Len(parts) = 1 THEN parts[1]
    ELSE parts[1] \o sep \o join(Tail(parts), sep)

DigitValue ==
    [c \in {"0", "1", "2", "3", "4", "5", "6", "7", "8", "9"} |->
        CASE c = "0" -> 0 [] c = "1" -> 1 [] c = "2" -> 2 [] c = "3" -> 3
          [] c = "4" -> 4 [] c = "5" -> 5 [] c = "6" -> 6 [] c = "7" -> 7
          [] c = "8" -> 8 [] c = "9" -> 9]

\* parseInt of a string of decimal digits (a range input's value)
RECURSIVE parseInt(_)
parseInt(s) ==
    IF s = <<>> THEN 0
    ELSE 10 * parseInt(SubSeq(s, 1, Len(s) - 1)) + DigitValue[s[Len(s)]]

DigitChar == <<"0", "1", "2", "3", "4", "5", "6", "7", "8", "9">>

RECURSIVE decimal(_)
decimal(n) ==
    IF n < 10 THEN <<DigitChar[n + 1]>>
    ELSE decimal(n \div 10) \o <<DigitChar[(n % 10) + 1]>>

RECURSIVE group3(_)
group3(ds) ==
    IF Len(ds) <= 3 THEN ds
    ELSE group3(SubSeq(ds, 1, Len(ds) - 3)) \o <<",">>
            \o SubSeq(ds, Len(ds) - 2, Len(ds))

\* Number.prototype.toLocaleString of a non-negative integer (grouping by
\* thousands, as the literal '$2,500' of resetFilters has it)
toLocaleString(n) == group3(decimal(n))

(***************************************************************************)
(* The documents that may be served as hotels.json.  A record is a         *)
(* function of its field names; an absent optional field is simply not in  *)
(* its domain.                                                             *)
(***************************************************************************)
HotelLago ==
    [id |-> "lago", name |-> <<"L", "a">>, location |-> <<"B", "o">>,
     region |-> <<"N">>, macroZone |-> "Norte",
     description |-> <<"A", "n">>,
     nearbyAttractions |-> << <<"c">>, <<"d">> >>,
     nightlyRate |-> 100, amenities |-> <<"spa", "wifi">>,
     image |-> "lago.jpg"]

HotelMonte ==
    [id |-> "monte", name |-> <<"M", "o">>, location |-> <<"S", "u">>,
     region |-> <<"S">>, macroZone |-> "Sur",
     description |-> <<"e">>,
     nearbyAttractions |-> << <<"c">>, <<"A", " ", "b", "e">> >>,
     nightlyRate |-> 300, amenities |-> <<"spa", "pool">>,
     image |-> "monte.jpg"]

\* no nearbyAttractions
HotelPampa ==
    [id |-> "pampa", name |-> <<"P", "a">>, location |-> <<"x">>,
     region |-> <<"S">>, macroZone |-> "Sur",
     description |-> <<"b", "o">>,
     nightlyRate |-> 500, amenities |-> <<"wifi">>,
     image |-> "pampa.jpg"]

\* a rate above the default ceiling, one amenity tag repeated six times
HotelCumbre ==
    [id |-> "cumbre", name |-> <<"C", "u">>, location |-> <<"B", "o">>,
     region |-> <<"N">>, macroZone |-> "Norte",
     description |-> <<"a", "n">>,
     nightlyRate |-> 3000,
     amenities |-> <<"spa", "spa", "spa", "spa", "spa", "spa">>,
     image |-> "cumbre.jpg"]

HotelValle ==
    [id |-> "valle", name |-> <<"V", "a">>, location |-> <<"l">>,
     region |-> <<"N">>, macroZone |-> "Norte",
     description |-> <<"e">>,
     nearbyAttractions |-> <<>>,
     nightlyRate |-> 300, amenities |-> <<"wifi">>,
     image |-> "valle.jpg"]

Catalogs ==
    { <<HotelLago, HotelMonte, HotelPampa>>, <<HotelCumbre, HotelValle>> }

\* a malformed record: no amenities
HotelSalar ==
    [id |-> "salar", name |-> <<"S", "a">>, location |-> <<"x">>,
     region |-> <<"N">>, macroZone |-> "Norte",
     description |-> <<"e">>,
     nearbyAttractions |-> << <<"c">> >>,
     nightlyRate |-> 300,
     image |-> "salar.jpg"]

\* documents that are arrays of records, one record malformed
MalformedCatalogs == { <<HotelLago, HotelSalar>> }

\* The mount points whose absence is modelled (cacheElements caches null for
\* an id the document lacks): of main.js, and of part_000.
MountsFull == {"loading", "amenitiesContainer", "destinosGrid", "resultsCount"}
MountsSimple == {"resultsCount"}

(***************************************************************************)
(* What the visitor may enter.                                             *)
(***************************************************************************)
\* texts typed into the search box
SearchInputs == { <<" ">>, <<" ", "A", " ", "B", " ">> }
\* positions of the price slider (the value of a range input is a string)
PriceInputs == { <<"3", "0", "0">>, <<"2", "5", "0", "0">> }

(***************************************************************************)
(* State.                                                                  *)
(***************************************************************************)
VARIABLES
    variant,              \* "full" (main.js) or "simple" (part_000)
    hasObserver,          \* 'IntersectionObserver' in window
    absent,               \* the mount points the page's document lacks
    phase,                \* where init() is: "loading" (awaiting the
                          \* document), "ready" (completed), "failed" (threw
                          \* in loadHotels), "aborted" (the document is a
                          \* string: threw after setupEventListeners) or
                          \* "crashed" (the document is an array: threw at
                          \* an absent mount point or a malformed record)
    hotels,               \* this.hotels
    filteredHotels,       \* this.filteredHotels
    filters,              \* this.filters
    controls,             \* the form controls: search box, region select,
                          \* price slider and its label, checked amenities
    options,              \* what init() rendered once: region options,
                          \* amenity checkboxes, destination / zone cards
    searchDebounceTimer,  \* this.searchDebounceTimer
    filterDebounceTimer,  \* this.filterDebounceTimer
    timeouts,             \* the runtime's pending timeouts, per channel
    grid,                 \* the cards of #hotels-grid, each with its image
    resultsCount,         \* #results-count: text and role
    emptyState,           \* #empty-state is shown
    loading,              \* #loading is shown
    announcers,           \* live-region elements in the document, the
                          \* text of the one added last, and the cleanup
                          \* timeouts pending
    overlay,              \* part_000: #hotel-modal (hidden or not, the
                          \* record in its body), where keyboard focus is,
                          \* and, history, the card that opened it
    pendingInput          \* history: per debounced channel, the events
                          \* since its timer was last idle and the value
                          \* the last of them carried

vars ==
    <<variant, hasObserver, absent, phase, hotels, filteredHotels, filters,
      controls, options, searchDebounceTimer, filterDebounceTimer,
      timeouts, grid, resultsCount, emptyState, loading, announcers,
      overlay, pendingInput>>

\* a timer handle that designates no pending timeout: null, or the id of a
\* timeout that has run or was cleared (clearTimeout ignores both alike)
NoTimer == "none"
\* a handle that designates the channel's newest timeout, still pending
Pending == "pending"

(***************************************************************************)
(* The filter predicate of main.js (the callback of applyFilters).         *)
(***************************************************************************)
\* hotel.nearbyAttractions || []
attractionsOf(hotel) ==
    IF "nearbyAttractions" \in DOMAIN hotel
    THEN hotel.nearbyAttractions
    ELSE <<>>

\* searchTerms with the fields run together, nothing between neighbours
searchTerms_RunTogether(hotel) ==
    join(<<toLowerCase(hotel.name), toLowerCase(hotel.location),
           toLowerCase(hotel.region), toLowerCase(hotel.description)>>
           \o [i \in 1..Len(attractionsOf(hotel)) |->
                  toLowerCase(attractionsOf(hotel)[i])],
         <<>>)

\* the text a search is matched against: the lowercased fields joined by ' '
searchTerms(hotel) ==
    join(<<toLowerCase(hotel.name), toLowerCase(hotel.location),
           toLowerCase(hotel.region), toLowerCase(hotel.description)>>
           \o [i \in 1..Len(attractionsOf(hotel)) |->
                  toLowerCase(attractionsOf(hotel)[i])],
         <<" ">>)

\* Array.prototype.includes
arrayIncludes(array, x) == \E i \in 1..Len(array) : array[i] = x

\* the four tests, each FALSE where the callback returns false
passesSearch(hotel, f) ==
    f.search # <<>> => includes(searchTerms(hotel), f.search)

passesRegion(hotel, f) ==
    ~(f.region # <<>> /\ hotel.region # f.region)

\* the price test with an exclusive ceiling
passesPrice_Exclusive(hotel, f) ==
    ~(hotel.nightlyRate >= f.maxPrice)

passesPrice(hotel, f) ==
    ~(hotel.nightlyRate > f.maxPrice)

\* the amenity test with OR-semantics: one required tag is enough
passesAmenities_AnyRequired(hotel, f) ==
    Cardinality(f.amenities) > 0 =>
        \E amenity \in f.amenities : arrayIncludes(hotel.amenities, amenity)

passesAmenities(hotel, f) ==
    Cardinality(f.amenities) > 0 =>
        \A amenity \in f.amenities : arrayIncludes(hotel.amenities, amenity)

\* hotelMatches with the families combined by OR: one passing test admits
hotelMatches_AnyFamily(hotel, f) ==
    \/ (f.search # <<>> /\ passesSearch(hotel, f))
    \/ (f.region # <<>> /\ passesRegion(hotel, f))
    \/ passesPrice(hotel, f)
    \/ (f.amenities # {} /\ passesAmenities(hotel, f))

hotelMatches(hotel, f) ==
    IF ~passesSearch(hotel, f) THEN FALSE
    ELSE IF ~passesRegion(hotel, f) THEN FALSE
    ELSE IF ~passesPrice(hotel, f) THEN FALSE
    ELSE IF ~passesAmenities(hotel, f) THEN FALSE
    ELSE TRUE

\* this.hotels.filter(...) of either page
filterHotels(hs, f) ==
    IF variant = "full"
    THEN SelectSeq(hs, LAMBDA hotel : hotelMatches(hotel, f))
    ELSE SelectSeq(hs, LAMBDA hotel :
            IF f.macroZone # "" THEN hotel.macroZone = f.macroZone ELSE TRUE)

(***************************************************************************)
(* Cards and their images.                                                 *)
(***************************************************************************)
\* the data-src attribute the card template writes
dataSrc(hotel) == IF "image" \in DOMAIN hotel THEN hotel.image ELSE "undefined"

\* loadImage: main.js fetches the real source through a temporary Image and
\* swaps it in on load; part_000 assigns it to the element at once
loadImage(card) ==
    IF dataSrc(card.hotel) = "" THEN card
    ELSE IF variant = "full"
    THEN [card EXCEPT !.fetches = @ + 1, !.inflight = @ + 1]
    ELSE [card EXCEPT !.fetches = @ + 1, !.src = "real"]

\* the card template of main.js reads hotel.amenities.slice, which throws
\* for a record without the field; part_000 does not read the field
cardThrows(hotel) == variant = "full" /\ "amenities" \notin DOMAIN hotel

\* createHotelCard without the else branch: no watcher, no load
createHotelCard_NoFallback(hotel) ==
    LET card == [hotel |-> hotel, observed |-> FALSE, fetches |-> 0,
                 inflight |-> 0, src |-> "placeholder", degraded |-> FALSE]
    IN  IF hasObserver
        THEN [card EXCEPT !.observed = TRUE]
        ELSE card

\* the image part of createHotelCard: register with the watcher, or load
createHotelCard(hotel) ==
    LET card == [hotel |-> hotel, observed |-> FALSE, fetches |-> 0,
                 inflight |-> 0, src |-> "placeholder", degraded |-> FALSE]
    IN  IF hasObserver
        THEN [card EXCEPT !.observed = TRUE]
        ELSE loadImage(card)

\* the callback without observer.unobserve(img)
observerEntry_KeepsObserving(card, isIntersecting) ==
    IF isIntersecting
    THEN loadImage(card)
    ELSE card

\* the callback of the IntersectionObserver, for one entry
observerEntry(card, isIntersecting) ==
    IF isIntersecting
    THEN [loadImage(card) EXCEPT !.observed = FALSE]
    ELSE card

(***************************************************************************)
(* The markup templates.  A template is modelled by its interpolations:    *)
(* which field of the record each reads, and the function the value passes *)
(* through before it is put into the markup ("raw": none).                 *)
(***************************************************************************)
slot(field, via) == [field |-> field, via |-> via]

\* the template literal of createHotelCard
cardTemplate(hotel) ==
    IF variant = "full"
    THEN {slot("image", "raw"), slot("name", "raw"), slot("location", "raw"),
          slot("rating", "raw"), slot("id", "raw"),
          slot("name", "escapeHtml"), slot("location", "escapeHtml"),
          slot("description", "escapeHtml"),
          slot("nightlyRate", "toLocaleString"), slot("rooms", "raw")}
         \cup (IF hotel.amenities # <<>>
               THEN {slot("amenities", "escapeHtml")} ELSE {})
         \cup (IF attractionsOf(hotel) # <<>>
               THEN {slot("nearbyAttractions", "escapeHtml")} ELSE {})
    ELSE {slot("image", "raw"), slot("name", "escapeHtml"), slot("id", "raw"),
          slot("location", "escapeHtml"), slot("description", "escapeHtml"),
          slot("nightlyRate", "toLocaleString"),
          slot("name", "encodeURIComponent")}

\* the number of amenity tags a card previews
PreviewSize == 5

\* the amenity part of the card template: hotel.amenities.slice(0, 5), and a
\* "+N más" tag when hotel.amenities.length > 5 (more = 0: no such tag)
amenityPreview(hotel) ==
    LET length == Len(hotel.amenities)
    IN  [tags |-> SubSeq(hotel.amenities, 1,
                         IF length < PreviewSize THEN length ELSE PreviewSize),
         more |-> IF length > PreviewSize THEN length - PreviewSize ELSE 0]

\* the template literal of a destination card (renderDestinosPopulares); the
\* image is that of the first record of the region
destinoTemplate ==
    {slot("image", "raw"), slot("region", "raw"), slot("region", "escapeHtml")}

\* the template literal of openModal
modalTemplate(hotel) ==
    {slot("name", "escapeHtml"), slot("image", "raw"),
     slot("location", "escapeHtml"), slot("description", "escapeHtml"),
     slot("nightlyRate", "toLocaleString"), slot("rating", "raw"),
     slot("name", "encodeURIComponent")}
    \cup (IF attractionsOf(hotel) # <<>>
          THEN {slot("nearbyAttractions", "escapeHtml")} ELSE {})

(***************************************************************************)
(* Rendering.                                                              *)
(***************************************************************************)
\* countText with the singular phrasing missing
countText_NoSingular(count) ==
    IF variant = "full"
    THEN IF count = 0 THEN "No se encontraron hoteles"
         ELSE ToString(count) \o " hoteles encontrados"
    ELSE ToString(count) \o " hoteles encontrados"

countText(count) ==
    IF variant = "full"
    THEN IF count = 0 THEN "No se encontraron hoteles"
         ELSE IF count = 1 THEN "1 hotel encontrado"
         ELSE ToString(count) \o " hoteles encontrados"
    ELSE ToString(count) \o " "
            \o (IF count = 1 THEN "hotel encontrado" ELSE "hoteles encontrados")

announcementText(count) ==
    IF count = 0 THEN "No hay hoteles que coincidan con tus filtros actuales"
    ELSE IF count = 1 THEN "Se encontró 1 hotel que coincide con tus filtros"
    ELSE "Se encontraron " \o ToString(count)
            \o " hoteles que coinciden con tus filtros"

\* announceResults: one more live-region element, and its cleanup timeout
announceResults(count) ==
    /\ announcers.count < MaxAnnouncers
    /\ announcers' = [count |-> announcers.count + 1,
                      last |-> announcementText(count),
                      timers |-> announcers.timers + 1]

\* renderHotels appending to the grid instead of replacing its content
renderHotels_Appends(fh) ==
    IF "resultsCount" \in absent
    THEN UNCHANGED <<grid, resultsCount, emptyState, announcers>>
    ELSE
    /\ resultsCount' = [resultsCount EXCEPT !.text = countText(Len(fh))]
    /\ IF Len(fh) = 0
       THEN /\ grid' = <<>>
            /\ emptyState' = TRUE
            /\ UNCHANGED announcers
       ELSE /\ emptyState' = FALSE
            /\ IF \E i \in 1..Len(fh) : cardThrows(fh[i])
               THEN UNCHANGED <<grid, announcers>>
               ELSE /\ grid' = grid \o [i \in 1..Len(fh) |->
                                          createHotelCard(fh[i])]
                    /\ IF variant = "full"
                       THEN announceResults(Len(fh))
                       ELSE UNCHANGED announcers

\* renderHotels of either page, on the subset fh.  Its first statement
\* writes the header and throws when #results-count is absent; the loop
\* of main.js that builds the cards throws at the first record
\* createHotelCard cannot read, before the grid is touched (the cards built
\* until then are never attached to the document).
renderHotels(fh) ==
    IF "resultsCount" \in absent
    THEN UNCHANGED <<grid, resultsCount, emptyState, announcers>>
    ELSE
    /\ resultsCount' = [resultsCount EXCEPT !.text = countText(Len(fh))]
    /\ IF Len(fh) = 0
       THEN /\ grid' = <<>>
            /\ emptyState' = TRUE
            /\ UNCHANGED announcers
       ELSE /\ emptyState' = FALSE
            /\ IF \E i \in 1..Len(fh) : cardThrows(fh[i])
               THEN UNCHANGED <<grid, announcers>>
               ELSE /\ grid' = [i \in 1..Len(fh) |-> createHotelCard(fh[i])]
                    /\ IF variant = "full"
                       THEN announceResults(Len(fh))
                       ELSE UNCHANGED announcers

\* applyFilters evaluating the configuration as it was before the handler
\* committed its change
applyFilters_StaleConfig ==
    /\ filteredHotels' = filterHotels(hotels, filters)
    /\ renderHotels(filteredHotels')

\* applyFilters: recompute the subset under the new configuration, render it.
\* In phase "aborted" this.hotels is a string and this.hotels.filter throws.
applyFilters ==
    IF phase = "aborted"
    THEN UNCHANGED <<filteredHotels, grid, resultsCount, emptyState, announcers>>
    ELSE /\ filteredHotels' = filterHotels(hotels, filters')
         /\ renderHotels(filteredHotels')

(***************************************************************************)
(* Debouncing.                                                             *)
(***************************************************************************)
\* clearTimeout(handle): the timeout the handle designates, if still pending
clearTimeout(handle, channel, pending) ==
    IF handle = Pending
    THEN [pending EXCEPT ![channel] = @ - 1]
    ELSE pending

setTimeout(channel, pending) == [pending EXCEPT ![channel] = @ + 1]

\* debounce without the clearTimeout: every event queues one more timeout
debounce_NoClear(timerId) ==
    IF timerId = "search"
    THEN /\ timeouts' = setTimeout("search", timeouts)
         /\ searchDebounceTimer' = Pending
         /\ UNCHANGED filterDebounceTimer
    ELSE /\ timeouts' = setTimeout("filter", timeouts)
         /\ filterDebounceTimer' = Pending
         /\ UNCHANGED searchDebounceTimer

\* debounce clearing the pending timeouts of both channels
debounce_ClearsBoth(timerId) ==
    LET cleared == clearTimeout(filterDebounceTimer, "filter",
                       clearTimeout(searchDebounceTimer, "search", timeouts))
    IN  IF timerId = "search"
        THEN /\ timeouts' = setTimeout("search", cleared)
             /\ searchDebounceTimer' = Pending
             /\ filterDebounceTimer' = NoTimer
        ELSE /\ timeouts' = setTimeout("filter", cleared)
             /\ filterDebounceTimer' = Pending
             /\ searchDebounceTimer' = NoTimer

debounce(timerId) ==
    IF timerId = "search"
    THEN /\ timeouts' = setTimeout("search",
                 clearTimeout(searchDebounceTimer, "search", timeouts))
         /\ searchDebounceTimer' = Pending
         /\ UNCHANGED filterDebounceTimer
    ELSE /\ timeouts' = setTimeout("filter",
                 clearTimeout(filterDebounceTimer, "filter", timeouts))
         /\ filterDebounceTimer' = Pending
         /\ UNCHANGED searchDebounceTimer

\* history of a debounced channel at an input event carrying `value'
noteInput(channel, value) ==
    pendingInput' =
        [pendingInput EXCEPT ![channel] =
            [events |-> IF timeouts[channel] = 0 THEN "one" ELSE "several",
             value |-> value]]

\* ... and when a timeout of the channel runs
noteTimeout(channel) ==
    pendingInput' =
        [pendingInput EXCEPT ![channel] =
            IF timeouts[channel] = 1 THEN [events |-> "none", value |-> <<>>] ELSE @]

\* the handle after a timeout of its channel ran: timeouts of one delay run
\* oldest first, and the handle designates the newest
afterTimeout(handle, channel) ==
    IF timeouts[channel] = 1 THEN NoTimer ELSE handle

(***************************************************************************)
(* Construction.  The state after the constructor has started init():      *)
(* cacheElements and setupImageObserver have run and loadHotels is         *)
(* waiting for hotels.json (main.js shows the loading indicator first).    *)
(* The controls hold the values resetFilters restores.                     *)
(***************************************************************************)
defaultFilters ==
    [search |-> <<>>, region |-> <<>>, maxPrice |-> DefaultMaxPrice,
     amenities |-> {}]

defaultControls ==
    [searchInput |-> <<>>, regionSelect |-> <<>>,
     priceRange |-> <<"2", "5", "0", "0">>,
     priceValue |-> <<"$", "2", ",", "5", "0", "0">>,
     checked |-> {}]

\* the overlay before any card was activated
closedOverlay ==
    [hidden |-> TRUE, body |-> "", focus |-> "page", opener |-> "none"]

idleInput ==
    [search |-> [events |-> "none", value |-> <<>>],
     filter |-> [events |-> "none", value |-> <<>>]]

\* the constructor has run, on a page that lacks the mount points `none'
Constructed(none) ==
    /\ variant \in {"full", "simple"}
    /\ hasObserver \in BOOLEAN
    /\ absent = none
    /\ phase = "loading"
    /\ hotels = <<>>
    /\ filteredHotels = <<>>
    /\ filters = IF variant = "full" THEN defaultFilters ELSE [macroZone |-> ""]
    /\ controls = IF variant = "full" THEN defaultControls ELSE [zone |-> "Todos"]
    /\ options = [regions |-> {}, amenities |-> {}, destinos |-> {}, zones |-> {}]
    /\ searchDebounceTimer = NoTimer
    /\ filterDebounceTimer = NoTimer
    /\ timeouts = [search |-> 0, filter |-> 0]
    /\ grid = <<>>
    /\ resultsCount = [text |-> "", role |-> ""]
    /\ emptyState = FALSE
    /\ loading = (variant = "full" /\ "loading" \notin none)
    /\ announcers = [count |-> 0, last |-> "", timers |-> 0]
    /\ overlay = closedOverlay
    /\ pendingInput = idleInput

\* the repository's page: every mount point is in the document
Init == Constructed({})

timerVars == <<searchDebounceTimer, filterDebounceTimer, timeouts, pendingInput>>
viewVars == <<grid, resultsCount, emptyState, announcers>>

regionsOf(hs) == {hs[i].region : i \in 1..Len(hs)}
amenitiesOf(hs) ==
    UNION {{hs[i].amenities[j] : j \in 1..Len(hs[i].amenities)} : i \in 1..Len(hs)}
zonesOf(hs) == {hs[i].macroZone : i \in 1..Len(hs)}

(***************************************************************************)
(* init() of main.js once hotels.json has arrived and is an array: the     *)
(* rest of loadHotels, then the five calls in order, each of which may     *)
(* throw into the catch of init().                                         *)
(***************************************************************************)
initCalls ==
    <<"setupEventListeners", "populateRegionFilter", "populateAmenitiesFilter",
      "renderDestinosPopulares", "renderHotels">>

\* the first call of init() that throws on this document, or "none":
\* setupEventListeners at the addEventListener of an absent container,
\* populateAmenitiesFilter at hotel.amenities.forEach of a record without
\* amenities, renderDestinosPopulares at grid.appendChild, renderHotels at
\* its first statement
initThrows(catalog) ==
    IF "amenitiesContainer" \in absent THEN "setupEventListeners"
    ELSE IF \E i \in 1..Len(catalog) : "amenities" \notin DOMAIN catalog[i]
    THEN "populateAmenitiesFilter"
    ELSE IF "destinosGrid" \in absent THEN "renderDestinosPopulares"
    ELSE IF "resultsCount" \in absent THEN "renderHotels"
    ELSE "none"

\* the call completed before init() threw at `thrown'
completed(call, thrown) ==
    \A k, n \in DOMAIN initCalls :
        (initCalls[k] = call /\ initCalls[n] = thrown) => k < n

\* showError of main.js, the catch of part_000: the content of
\* #results-count afterwards (the statement throws when it is absent)
showError ==
    IF "resultsCount" \in absent THEN resultsCount
    ELSE IF variant = "full"
    THEN [text |-> "Error al cargar hoteles. Por favor recarga la página.",
          role |-> "alert"]
    ELSE [resultsCount EXCEPT !.text = "Error al cargar. Intenta de nuevo."]

LoadFull(catalog) ==
    /\ variant = "full"
    /\ phase = "loading"
    /\ "loading" \notin absent
    /\ hotels' = catalog
    /\ filteredHotels' = catalog
    /\ loading' = FALSE
    /\ LET thrown == initThrows(catalog)
       IN  /\ options' =
                 [options EXCEPT
                    !.regions = IF completed("populateRegionFilter", thrown)
                                THEN regionsOf(catalog) ELSE @,
                    !.amenities = IF completed("populateAmenitiesFilter", thrown)
                                  THEN amenitiesOf(catalog) ELSE @,
                    !.destinos = IF completed("renderDestinosPopulares", thrown)
                                 THEN regionsOf(catalog) ELSE @]
           /\ IF thrown \in {"none", "renderHotels"}
              THEN renderHotels(filteredHotels')
              ELSE /\ resultsCount' = showError
                   /\ UNCHANGED <<grid, emptyState, announcers>>
           /\ phase' = IF thrown = "none" THEN "ready" ELSE "crashed"
    /\ UNCHANGED <<variant, hasObserver, absent, overlay, filters, controls, timerVars>>

\* init() of part_000: loadHotels, renderMacroZonas, setupEventListeners,
\* applyFilters
LoadSimple(catalog) ==
    /\ variant = "simple"
    /\ phase = "loading"
    /\ hotels' = catalog
    /\ options' = [options EXCEPT !.zones = {"Todos"} \cup zonesOf(catalog)]
    /\ filters' = filters
    /\ filteredHotels' = filterHotels(hotels', filters')
    /\ renderHotels(filteredHotels')
    /\ phase' = IF "resultsCount" \in absent THEN "crashed" ELSE "ready"
    /\ UNCHANGED <<variant, hasObserver, absent, overlay, controls, loading, timerVars>>

\* fetch rejects, the response is not OK, or its body is not JSON; or, on a
\* page of main.js without #loading, showLoading(true) throws before the
\* fetch and again in the catch of loadHotels
LoadFails ==
    /\ phase = "loading"
    /\ phase' = "failed"
    /\ loading' = FALSE
    /\ resultsCount' = showError
    /\ UNCHANGED <<variant, hasObserver, absent, overlay, hotels, filteredHotels, filters,
                   controls, options, timerVars, grid, emptyState, announcers>>

\* init() of main.js when the document is a JSON string, here "": loadHotels
\* completes (this.hotels is the string, [...this.hotels] the empty array),
\* setupEventListeners runs (or throws at an absent container),
\* populateRegionFilter throws on this.hotels.map and the catch of init()
\* shows the error.  The empty string is <<>>.
LoadAborted ==
    /\ variant = "full"
    /\ phase = "loading"
    /\ "loading" \notin absent
    /\ hotels' = <<>>
    /\ filteredHotels' = <<>>
    /\ loading' = FALSE
    /\ phase' = "aborted"
    /\ resultsCount' = showError
    /\ UNCHANGED <<variant, hasObserver, absent, overlay, filters, controls, options,
                   timerVars, grid, emptyState, announcers>>

(***************************************************************************)
(* The listeners of main.js.                                               *)
(***************************************************************************)
Ready(v) == phase = "ready" /\ variant = v

\* setupEventListeners has run, to its end or (main.js, amenities container
\* absent) to the listeners of the search box, the region select and the
\* price slider; the zone buttons of part_000 carry theirs from
\* renderMacroZonas, which runs before
ListenersInstalled == phase \in {"ready", "aborted", "crashed"}

Listening(v) == ListenersInstalled /\ variant = v

\* the search listener committing the text at the event, as the price
\* listener commits the price
SearchInput_CommitsAtEvent(text) ==
    /\ Listening("full")
    /\ text # controls.searchInput
    /\ controls' = [controls EXCEPT !.searchInput = text]
    /\ debounce("search")
    /\ noteInput("search", text)
    /\ filters' = [filters EXCEPT !.search = trim(toLowerCase(text))]
    /\ UNCHANGED <<variant, hasObserver, absent, overlay, phase, hotels, filteredHotels,
                   options, viewVars, loading>>

\* 'input' on the search box: the visitor has changed its text to `text'
SearchInput(text) ==
    /\ Listening("full")
    /\ text # controls.searchInput
    /\ controls' = [controls EXCEPT !.searchInput = text]
    /\ debounce("search")
    /\ noteInput("search", text)
    /\ UNCHANGED <<variant, hasObserver, absent, overlay, phase, hotels, filteredHotels,
                   filters, options, viewVars, loading>>

\* the search timeout committing the text its event carried, not the text
\* the box holds when the timeout runs
SearchTimeout_CommitsEventText ==
    /\ Listening("full")
    /\ timeouts.search > 0
    /\ timeouts' = [timeouts EXCEPT !.search = @ - 1]
    /\ searchDebounceTimer' = afterTimeout(searchDebounceTimer, "search")
    /\ noteTimeout("search")
    /\ filters' = [filters EXCEPT
                     !.search = trim(toLowerCase(pendingInput.search.value))]
    /\ applyFilters
    /\ UNCHANGED <<variant, hasObserver, absent, overlay, phase, hotels, controls, options,
                   filterDebounceTimer, loading>>

\* the search timeout runs: commit the box's text as it is now, recompute
SearchTimeout ==
    /\ Listening("full")
    /\ timeouts.search > 0
    /\ timeouts' = [timeouts EXCEPT !.search = @ - 1]
    /\ searchDebounceTimer' = afterTimeout(searchDebounceTimer, "search")
    /\ noteTimeout("search")
    /\ filters' = [filters EXCEPT !.search = trim(toLowerCase(controls.searchInput))]
    /\ applyFilters
    /\ UNCHANGED <<variant, hasObserver, absent, overlay, phase, hotels, controls, options,
                   filterDebounceTimer, loading>>

\* the region select handled like the price slider: commit, then debounce
RegionChange_Debounced(region) ==
    /\ Listening("full")
    /\ region # controls.regionSelect
    /\ controls' = [controls EXCEPT !.regionSelect = region]
    /\ filters' = [filters EXCEPT !.region = region]
    /\ debounce("filter")
    /\ UNCHANGED <<variant, hasObserver, absent, overlay, phase, hotels, filteredHotels,
                   options, viewVars, loading, pendingInput>>

\* 'change' on the region select
RegionChange(region) ==
    /\ Listening("full")
    /\ region # controls.regionSelect
    /\ controls' = [controls EXCEPT !.regionSelect = region]
    /\ filters' = [filters EXCEPT !.region = region]
    /\ applyFilters
    /\ UNCHANGED <<variant, hasObserver, absent, overlay, phase, hotels, options, timerVars,
                   loading>>

\* the price handler also clearing the region
PriceInput_ClearsRegion(position) ==
    /\ Listening("full")
    /\ position # controls.priceRange
    /\ LET value == parseInt(position)
       IN  /\ filters' = [filters EXCEPT !.maxPrice = value, !.region = <<>>]
           /\ controls' = [controls EXCEPT
                             !.priceRange = position,
                             !.priceValue = <<"$">> \o toLocaleString(value)]
    /\ debounce("filter")
    /\ noteInput("filter", position)
    /\ UNCHANGED <<variant, hasObserver, absent, overlay, phase, hotels, filteredHotels,
                   options, viewVars, loading>>

\* 'input' on the price slider: the visitor has moved it to `position'
PriceInput(position) ==
    /\ Listening("full")
    /\ position # controls.priceRange
    /\ LET value == parseInt(position)
       IN  /\ filters' = [filters EXCEPT !.maxPrice = value]
           /\ controls' = [controls EXCEPT
                             !.priceRange = position,
                             !.priceValue = <<"$">> \o toLocaleString(value)]
    /\ debounce("filter")
    /\ noteInput("filter", position)
    /\ UNCHANGED <<variant, hasObserver, absent, overlay, phase, hotels, filteredHotels,
                   options, viewVars, loading>>

\* the price timeout runs: recompute
FilterTimeout ==
    /\ Listening("full")
    /\ timeouts.filter > 0
    /\ timeouts' = [timeouts EXCEPT !.filter = @ - 1]
    /\ filterDebounceTimer' = afterTimeout(filterDebounceTimer, "filter")
    /\ noteTimeout("filter")
    /\ filters' = filters
    /\ applyFilters
    /\ UNCHANGED <<variant, hasObserver, absent, overlay, phase, hotels, controls, options,
                   searchDebounceTimer, loading>>

\* 'change' on an amenity checkbox (a click, or Enter/Space on its label,
\* which toggles the box and dispatches 'change')
AmenityChange(amenity) ==
    /\ Listening("full")
    /\ "amenitiesContainer" \notin absent
    /\ LET checked == amenity \notin controls.checked
       IN  /\ controls' = [controls EXCEPT !.checked =
                             IF checked THEN @ \cup {amenity} ELSE @ \ {amenity}]
           /\ filters' = [filters EXCEPT !.amenities =
                             IF checked THEN @ \cup {amenity} ELSE @ \ {amenity}]
    /\ applyFilters
    /\ UNCHANGED <<variant, hasObserver, absent, overlay, phase, hotels, options, timerVars,
                   loading>>

\* the destination click filtering this.hotels in place
DestinoClick_FiltersInPlace(region) ==
    /\ Listening("full")
    /\ controls' = [controls EXCEPT !.regionSelect = region]
    /\ filters' = [filters EXCEPT !.region = region]
    /\ hotels' = filterHotels(hotels, filters')
    /\ filteredHotels' = hotels'
    /\ renderHotels(filteredHotels')
    /\ UNCHANGED <<variant, hasObserver, absent, overlay, phase, options, timerVars,
                   loading>>

\* a click (or Enter/Space) on a destination card
DestinoClick(region) ==
    /\ Listening("full")
    /\ controls' = [controls EXCEPT !.regionSelect = region]
    /\ filters' = [filters EXCEPT !.region = region]
    /\ applyFilters
    /\ UNCHANGED <<variant, hasObserver, absent, overlay, phase, hotels, options, timerVars,
                   loading>>

\* window.hotelFinder.resetFilters(), callable once the constructor
\* returned.  Without the amenities container it throws at querySelectorAll,
\* after the configuration and the other controls are reset.
ResetFilters ==
    /\ variant = "full"
    /\ filters' = defaultFilters
    /\ IF "amenitiesContainer" \in absent
       THEN /\ controls' = [defaultControls EXCEPT !.checked = controls.checked]
            /\ UNCHANGED <<filteredHotels, viewVars>>
       ELSE /\ controls' = defaultControls
            /\ applyFilters
    /\ UNCHANGED <<variant, hasObserver, absent, overlay, phase, hotels, options, timerVars,
                   loading>>

\* the cleanup timeout runs and leaves its element in the document
AnnouncerCleanup_KeepsElement ==
    /\ announcers.timers > 0
    /\ announcers' = [announcers EXCEPT !.timers = @ - 1]
    /\ UNCHANGED <<variant, hasObserver, absent, overlay, phase, hotels, filteredHotels,
                   filters, controls, options, timerVars, grid, resultsCount,
                   emptyState, loading>>

\* the cleanup timeout of the oldest announcement runs
AnnouncerCleanup ==
    /\ announcers.timers > 0
    /\ announcers' = [count |-> announcers.count - 1,
                      last |-> IF announcers.count = 1 THEN "" ELSE announcers.last,
                      timers |-> announcers.timers - 1]
    /\ UNCHANGED <<variant, hasObserver, absent, overlay, phase, hotels, filteredHotels,
                   filters, controls, options, timerVars, grid, resultsCount,
                   emptyState, loading>>

(***************************************************************************)
(* The listener of part_000 that filters.                                  *)
(***************************************************************************)
ZoneClick(zone) ==
    /\ Listening("simple")
    /\ filters' = [filters EXCEPT !.macroZone = IF zone = "Todos" THEN "" ELSE zone]
    /\ controls' = [controls EXCEPT !.zone = zone]
    /\ overlay' = [overlay EXCEPT !.focus = "page"]
    /\ applyFilters
    /\ UNCHANGED <<variant, hasObserver, absent, phase, hotels, options, timerVars,
                   loading>>

(***************************************************************************)
(* The detail overlay of part_000.                                         *)
(***************************************************************************)
overlayFrame ==
    <<variant, hasObserver, absent, phase, hotels, filteredHotels, filters, controls,
      options, timerVars, grid, resultsCount, emptyState, loading, announcers>>

\* openModal: the template reads hotel.nearbyAttractions.map, which throws
\* for a record without the field before the overlay is shown
openModal(hotel) ==
    IF "nearbyAttractions" \in DOMAIN hotel
    THEN [hidden |-> FALSE, body |-> hotel.id, focus |-> "close",
          opener |-> hotel.id]
    ELSE [overlay EXCEPT !.focus = hotel.id]

\* closeModal leaving aria-hidden as it is
closeModal_LeavesOpen(o) == o

\* closeModal
closeModal(o) == [o EXCEPT !.hidden = TRUE]

\* a click outside the CTA link, or Enter/Space, on the i-th card, which has
\* the focus when its listener runs
CardActivate(i) ==
    /\ Listening("simple")
    /\ i \in DOMAIN grid
    /\ overlay' = openModal(grid[i].hotel)
    /\ UNCHANGED overlayFrame

\* a click on the call-to-action link of the i-th card: the card's click
\* listener finds e.target.closest('.cta-button') and does nothing; the link
\* takes the focus
CtaClick(i) ==
    /\ Listening("simple")
    /\ i \in DOMAIN grid
    /\ overlay' = [overlay EXCEPT !.focus = "cta"]
    /\ UNCHANGED overlayFrame

\* a click on #modal-close, which takes the focus
CloseClick ==
    /\ Listening("simple")
    /\ ~overlay.hidden
    /\ overlay' = [closeModal(overlay) EXCEPT !.focus = "close", !.opener = "none"]
    /\ UNCHANGED overlayFrame

\* a click on the backdrop itself (e.target === modal), which is not
\* focusable: the focus goes to the page
BackdropClick ==
    /\ Listening("simple")
    /\ ~overlay.hidden
    /\ overlay' = [closeModal(overlay) EXCEPT !.focus = "page", !.opener = "none"]
    /\ UNCHANGED overlayFrame

\* keydown of Escape on the document
EscapeKey ==
    /\ Listening("simple")
    /\ overlay' = IF ~overlay.hidden
                  THEN [closeModal(overlay) EXCEPT !.opener = "none"]
                  ELSE overlay
    /\ UNCHANGED overlayFrame

(***************************************************************************)
(* Images.  The watcher reports on one registered image of the grid (the   *)
(* images of replaced cards are detached and never intersect), one entry   *)
(* per report; an image it no longer observes is never reported.           *)
(***************************************************************************)
ObserverReport(i, isIntersecting) ==
    /\ phase \in {"ready", "crashed"}
    /\ hasObserver
    /\ i \in DOMAIN grid
    /\ grid[i].observed
    /\ grid' = [grid EXCEPT ![i] = observerEntry(@, isIntersecting)]
    /\ UNCHANGED <<variant, hasObserver, absent, overlay, phase, hotels, filteredHotels,
                   filters, controls, options, timerVars, resultsCount,
                   emptyState, loading, announcers>>

\* tempImg.onload of main.js
ImageLoaded(i) ==
    /\ variant = "full"
    /\ i \in DOMAIN grid
    /\ grid[i].inflight > 0
    /\ grid' = [grid EXCEPT ![i] = [@ EXCEPT !.inflight = @ - 1, !.src = "real"]]
    /\ UNCHANGED <<variant, hasObserver, absent, overlay, phase, hotels, filteredHotels,
                   filters, controls, options, timerVars, resultsCount,
                   emptyState, loading, announcers>>

\* onerror swapping the source that failed into the element
ImageFailed_SwapsSource(i) ==
    /\ variant = "full"
    /\ i \in DOMAIN grid
    /\ grid[i].inflight > 0
    /\ grid' = [grid EXCEPT ![i] = [@ EXCEPT !.inflight = @ - 1, !.src = "real",
                                              !.degraded = TRUE]]
    /\ UNCHANGED <<variant, hasObserver, absent, overlay, phase, hotels, filteredHotels,
                   filters, controls, options, timerVars, resultsCount,
                   emptyState, loading, announcers>>

\* tempImg.onerror of main.js
ImageFailed(i) ==
    /\ variant = "full"
    /\ i \in DOMAIN grid
    /\ grid[i].inflight > 0
    /\ grid' = [grid EXCEPT ![i] = [@ EXCEPT !.inflight = @ - 1, !.degraded = TRUE]]
    /\ UNCHANGED <<variant, hasObserver, absent, overlay, phase, hotels, filteredHotels,
                   filters, controls, options, timerVars, resultsCount,
                   emptyState, loading, announcers>>

Next ==
    \/ \E catalog \in Catalogs : LoadFull(catalog)
    \/ \E catalog \in Catalogs : LoadSimple(catalog)
    \/ LoadFails
    \/ LoadAborted
    \/ \E text \in SearchInputs \cup {<<>>} : SearchInput(text)
    \/ SearchTimeout
    \/ \E region \in options.regions \cup {<<>>} : RegionChange(region)
    \/ \E position \in PriceInputs : PriceInput(position)
    \/ FilterTimeout
    \/ \E amenity \in options.amenities : AmenityChange(amenity)
    \/ \E region \in options.destinos : DestinoClick(region)
    \/ ResetFilters
    \/ AnnouncerCleanup
    \/ \E zone \in options.zones : ZoneClick(zone)
    \/ \E i \in DOMAIN grid : CardActivate(i)
    \/ \E i \in DOMAIN grid : CtaClick(i)
    \/ CloseClick
    \/ BackdropClick
    \/ EscapeKey
    \/ \E i \in DOMAIN grid, isIntersecting \in BOOLEAN :
          ObserverReport(i, isIntersecting)
    \/ \E i \in DOMAIN grid : ImageLoaded(i)
    \/ \E i \in DOMAIN grid : ImageFailed(i)

Spec == Init /\ [][Next]_vars

(***************************************************************************)
(* Sessions on a defective page or document: the page may lack one of the  *)
(* mount points above, and hotels.json may hold a malformed record.        *)
(***************************************************************************)
InitDefective ==
    \E none \in {{}} \cup {{mount} : mount \in MountsFull} :
        /\ Constructed(none)
        /\ variant = "simple" => none \subseteq MountsSimple

NextDefective ==
    \/ Next
    \/ \E catalog \in MalformedCatalogs : LoadFull(catalog)
    \/ \E catalog \in MalformedCatalogs : LoadSimple(catalog)

SpecDefective == InitDefective /\ [][NextDefective]_vars

(***************************************************************************)
(* Vocabulary of the properties.  These definitions say what the           *)
(* specification means; none of them is used by the actions above.         *)
(***************************************************************************)
Channels == {"search", "filter"}

\* the set of tags of a record
AmenitySet(hotel) == {hotel.amenities[j] : j \in 1..Len(hotel.amenities)}

\* needle occurs in hay at some offset
IsSubstring(needle, hay) ==
    \E k \in 0..Len(hay) :
        /\ k + Len(needle) <= Len(hay)
        /\ \A j \in 1..Len(needle) : hay[k + j] = needle[j]

Lowered(s) == [i \in 1..Len(s) |->
                  IF s[i] \in DOMAIN UpperToLower THEN UpperToLower[s[i]] ELSE s[i]]

\* the searchable fields of a record, an absent attraction list being empty
SearchFields(hotel) ==
    <<hotel.name, hotel.location, hotel.region, hotel.description>>
        \o (IF "nearbyAttractions" \in DOMAIN hotel
            THEN hotel.nearbyAttractions ELSE <<>>)

\* the lowercased fields put together with `sep' between neighbours
RECURSIVE Glued(_, _)
Glued(fields, sep) ==
    IF Len(fields) = 0 THEN <<>>
    ELSE IF Len(fields) = 1 THEN Lowered(fields[1])
    ELSE Glued(SubSeq(fields, 1, Len(fields) - 1), sep) \o sep
            \o Lowered(fields[Len(fields)])

\* the constraints a configuration makes active, and what each demands
ActiveConstraints(f) ==
    {"maxPrice"}
        \cup (IF f.search # <<>> THEN {"search"} ELSE {})
        \cup (IF f.region # <<>> THEN {"region"} ELSE {})
        \cup (IF f.amenities # {} THEN {"amenities"} ELSE {})

Satisfies(hotel, f, constraint) ==
    CASE constraint = "search" ->
            IsSubstring(f.search, Glued(SearchFields(hotel), <<" ">>))
      [] constraint = "region" -> hotel.region = f.region
      [] constraint = "maxPrice" -> hotel.nightlyRate <= f.maxPrice
      [] constraint = "amenities" -> f.amenities \subseteq AmenitySet(hotel)

Matches(hotel, f) == \A c \in ActiveConstraints(f) : Satisfies(hotel, f, c)

Members(seq) == {seq[i] : i \in 1..Len(seq)}

\* the records of hs that match f, in the order of hs
RECURSIVE Matching(_, _)
Matching(hs, f) ==
    IF hs = <<>> THEN <<>>
    ELSE (IF Matches(Head(hs), f) THEN <<Head(hs)>> ELSE <<>>)
            \o Matching(Tail(hs), f)

\* the steps of main.js that run applyFilters
RunsApplyFilters ==
    \/ SearchTimeout
    \/ FilterTimeout
    \/ \E region \in options.regions \cup {<<>>} : RegionChange(region)
    \/ \E amenity \in options.amenities : AmenityChange(amenity)
    \/ \E region \in options.destinos : DestinoClick(region)
    \/ ResetFilters

\* a timeout of the channel runs in this step
TimeoutRuns(channel) == timeouts'[channel] < timeouts[channel]

\* an input event of the channel is handled in this step
InputEvent(channel) ==
    IF channel = "search"
    THEN \E text \in SearchInputs \cup {<<>>} : SearchInput(text)
    ELSE \E position \in PriceInputs : PriceInput(position)

\* the value a channel's control holds
ControlValue(channel) ==
    IF channel = "search" THEN controls.searchInput ELSE controls.priceRange

\* the configuration has the value `value' of the channel's control committed
Committed(channel, value, f) ==
    IF channel = "search"
    THEN f.search = trim(toLowerCase(value))
    ELSE f.maxPrice = parseInt(value)

\* the grid shows exactly the records of fh, in order
GridShows(g, fh) ==
    /\ Len(g) = Len(fh)
    /\ \A i \in 1..Len(fh) : g[i].hotel = fh[i]

\* the step neither recomputes nor renders
NoRecomputation == UNCHANGED <<filteredHotels, viewVars>>

(***************************************************************************)
(* C1.  After every run of applyFilters the filtered subset holds only     *)
(* loaded records, every record in it satisfies every active constraint of *)
(* the configuration, and every loaded record not in it fails at least one *)
(* active constraint.                                                      *)
(***************************************************************************)
C1_FilteredExactly ==
    [][RunsApplyFilters =>
        /\ Members(filteredHotels') \subseteq Members(hotels)
        /\ \A hotel \in Members(filteredHotels') :
              \A c \in ActiveConstraints(filters') : Satisfies(hotel, filters', c)
        /\ \A hotel \in Members(hotels) \ Members(filteredHotels') :
              \E c \in ActiveConstraints(filters') : ~Satisfies(hotel, filters', c)
      ]_vars

\* two families of constraints are active and split the loaded records
C1_Witness ==
    /\ Ready("full")
    /\ filters.region # <<>>
    /\ filters.amenities # {}
    /\ filteredHotels # <<>>
    /\ Members(filteredHotels) # Members(hotels)
    /\ filteredHotels = Matching(hotels, filters)

\* the timer handle of a channel
Handle(channel) ==
    IF channel = "search" THEN searchDebounceTimer ELSE filterDebounceTimer

\* the value a channel's control holds after resetFilters
ResetValue(channel) ==
    IF channel = "search" THEN <<>> ELSE <<"2", "5", "0", "0">>

(***************************************************************************)
(* C2 as stated.  Debounce coalescing: N >= 1 input events on a debounced  *)
(* channel, each arriving while the previous one's timer is pending, cause *)
(* exactly one recomputation from that channel, and it uses the value of   *)
(* the last of the N events.                                               *)
(***************************************************************************)
C2_UsesLastEventValue ==
    [][\A ch \in Channels :
         /\ InputEvent(ch) => timeouts'[ch] = 1 /\ NoRecomputation
         /\ TimeoutRuns(ch) =>
               /\ timeouts'[ch] = 0
               /\ Committed(ch, pendingInput[ch].value, filters')
               /\ filteredHotels' = Matching(hotels, filters')
      ]_vars

(***************************************************************************)
(* C2 as amended.  ... and that recomputation uses the value the channel's *)
(* control holds when the timer runs: the value of the last of the N       *)
(* events, or the reset value if resetFilters ran after that event.        *)
(***************************************************************************)
C2_Coalescing ==
    [][\A ch \in Channels :
         /\ InputEvent(ch) => timeouts'[ch] = 1 /\ NoRecomputation
         /\ TimeoutRuns(ch) =>
               /\ timeouts'[ch] = 0
               /\ ControlValue(ch) \in {pendingInput[ch].value, ResetValue(ch)}
               /\ Committed(ch, ControlValue(ch), filters')
               /\ filteredHotels' = Matching(hotels, filters')
      ]_vars

\* the search channel has recomputed with the typed text, and two price
\* events stand coalesced in one pending timeout
C2_Witness ==
    /\ Ready("full")
    /\ filters.search = <<"a", " ", "b">>
    /\ timeouts.search = 0
    /\ filteredHotels = Matching(hotels, filters)
    /\ timeouts.filter = 1
    /\ pendingInput.filter.events = "several"

(***************************************************************************)
(* C3.  Each debounced channel has at most one pending timer in every      *)
(* reachable state; an input event on a channel cancels that channel's     *)
(* pending timer and starts a new one, and leaves the other channel's      *)
(* pending timer alone.                                                    *)
(***************************************************************************)
C3_OnePendingTimer ==
    /\ [](\A ch \in Channels : timeouts[ch] <= 1)
    /\ [][\A ch \in Channels : InputEvent(ch) =>
             /\ timeouts'[ch] = 1
             /\ Handle(ch)' = Pending
             /\ \A other \in Channels \ {ch} :
                   /\ timeouts'[other] = timeouts[other]
                   /\ Handle(other)' = Handle(other)
         ]_vars

\* both channels pending, the search timer restarted by a second event
C3_Witness ==
    /\ timeouts.search = 1
    /\ timeouts.filter = 1
    /\ searchDebounceTimer = Pending
    /\ filterDebounceTimer = Pending
    /\ pendingInput.search.events = "several"

(***************************************************************************)
(* C4.  Every recomputation evaluates the configuration as committed by    *)
(* that step and renders its result; the timeout that runs on a channel is *)
(* the one set by the channel's latest event (a superseded one never       *)
(* runs), and what it commits is the value the control holds now, so no    *)
(* recomputation evaluates a value a later input has replaced.             *)
(***************************************************************************)
C4_NoStaleRecomputation ==
    [][/\ RunsApplyFilters =>
             /\ filteredHotels' = Matching(hotels, filters')
             /\ GridShows(grid', filteredHotels')
       /\ \A ch \in Channels : TimeoutRuns(ch) =>
             /\ Handle(ch) = Pending
             /\ timeouts[ch] = 1
             /\ Handle(ch)' = NoTimer
             /\ Committed(ch, ControlValue(ch), filters')
      ]_vars

\* both timers have run and the subset reflects the text and the price
C4_Witness ==
    /\ Ready("full")
    /\ timeouts = [search |-> 0, filter |-> 0]
    /\ filters.search # <<>>
    /\ filters.maxPrice # DefaultMaxPrice
    /\ filters.region # <<>>
    /\ filteredHotels # <<>>
    /\ filteredHotels = Matching(hotels, filters)

(***************************************************************************)
(* C5.  A region selection, an amenity toggle and a click on a destination *)
(* card each update their filter field and recompute and render the        *)
(* subset in the same step, touching no timer, pending or not.             *)
(***************************************************************************)
Immediately ==
    /\ filteredHotels' = Matching(hotels, filters')
    /\ GridShows(grid', filteredHotels')
    /\ UNCHANGED <<timeouts, searchDebounceTimer, filterDebounceTimer>>

C5_DiscreteInputsImmediate ==
    [][/\ \A region \in options.regions \cup {<<>>} :
             RegionChange(region) => filters'.region = region /\ Immediately
       /\ \A amenity \in options.amenities :
             AmenityChange(amenity) =>
                /\ filters'.amenities \in {filters.amenities \cup {amenity},
                                           filters.amenities \ {amenity}}
                /\ filters'.amenities # filters.amenities
                /\ Immediately
       /\ \A region \in options.destinos :
             DestinoClick(region) => filters'.region = region /\ Immediately
      ]_vars

\* both timers are pending, the price moved by the one pending event, and
\* the subset already reflects the region, the amenity and the new price
C5_Witness ==
    /\ Ready("full")
    /\ timeouts = [search |-> 1, filter |-> 1]
    /\ pendingInput.filter.events = "one"
    /\ filters.maxPrice = 300
    /\ filters.region = <<"S">>
    /\ filters.amenities = {"spa"}
    /\ filteredHotels = <<HotelMonte>>

(***************************************************************************)
(* C6.  Amenity AND-semantics: a record passes the amenities constraint    *)
(* iff every required amenity is among its amenities, an empty required    *)
(* set constraining nothing; a record with {spa, wifi} matches the         *)
(* required sets {spa} and {spa, wifi} and does not match {spa, pool}.     *)
(* The filtered subset never holds a record that lacks a required amenity. *)
(***************************************************************************)
C6_AmenitiesConjunctive ==
    Ready("full") =>
        /\ \A hotel \in Members(hotels) :
              /\ passesAmenities(hotel, filters)
                    <=> filters.amenities \subseteq AmenitySet(hotel)
              /\ filters.amenities = {} => passesAmenities(hotel, filters)
              /\ AmenitySet(hotel) = {"spa", "wifi"} =>
                    /\ filters.amenities \in {{"spa"}, {"spa", "wifi"}}
                          => passesAmenities(hotel, filters)
                    /\ filters.amenities = {"spa", "pool"}
                          => ~passesAmenities(hotel, filters)
        /\ \A hotel \in Members(filteredHotels) :
              filters.amenities \subseteq AmenitySet(hotel)

\* {spa, pool} is required: the {spa, wifi} record is out, the {spa, pool}
\* record is in
C6_Witness ==
    /\ Ready("full")
    /\ filters.amenities = {"spa", "pool"}
    /\ HotelLago \in Members(hotels)
    /\ HotelLago \notin Members(filteredHotels)
    /\ HotelMonte \in Members(filteredHotels)

\* the position of a loaded record
IndexIn(hs, hotel) == CHOOSE k \in 1..Len(hs) : hs[k] = hotel

\* the nightly rates of a record sequence
Rates(hs) == [i \in 1..Len(hs) |-> hs[i].nightlyRate]

(***************************************************************************)
(* C7.  The price ceiling is inclusive and filtering preserves order: a    *)
(* record passes the price constraint iff nightlyRate <= maxPrice, the     *)
(* filtered subset lists records in the relative order of the loaded set,  *)
(* and rates 100, 300, 500 under maxPrice 300 (nothing else constrained,   *)
(* the price timer run) yield exactly the first two, in that order.        *)
(***************************************************************************)
C7_PriceInclusiveOrdered ==
    Ready("full") =>
        /\ \A hotel \in Members(hotels) :
              passesPrice(hotel, filters) <=> hotel.nightlyRate <= filters.maxPrice
        /\ Members(filteredHotels) \subseteq Members(hotels)
        /\ \A i, j \in 1..Len(filteredHotels) :
              i < j => IndexIn(hotels, filteredHotels[i])
                          < IndexIn(hotels, filteredHotels[j])
        /\ ( /\ Rates(hotels) = <<100, 300, 500>>
             /\ filters = [search |-> <<>>, region |-> <<>>, maxPrice |-> 300,
                           amenities |-> {}]
             /\ timeouts.filter = 0 )
              => filteredHotels = <<hotels[1], hotels[2]>>

\* the example: three records at 100, 300, 500 filtered by price alone
C7_Witness ==
    /\ Ready("full")
    /\ Rates(hotels) = <<100, 300, 500>>
    /\ filters = [search |-> <<>>, region |-> <<>>, maxPrice |-> 300,
                  amenities |-> {}]
    /\ timeouts.filter = 0
    /\ Rates(filteredHotels) = <<100, 300>>

\* s without its leading and trailing white space
Stripped(s) ==
    LET inked == {i \in 1..Len(s) : s[i] \notin WhiteSpace}
    IN  IF inked = {} THEN <<>>
        ELSE SubSeq(s, CHOOSE i \in inked : \A k \in inked : i <= k,
                       CHOOSE i \in inked : \A k \in inked : i >= k)

\* the text search as the model performs it agrees with substring search in
\* the lowercased fields put together with `sep' between neighbours
SearchAgrees(sep) ==
    Ready("full") =>
        /\ timeouts.search = 0
              => filters.search = Stripped(Lowered(controls.searchInput))
        /\ \A text \in SearchInputs \cup {<<>>} :
              (\A i \in 1..Len(text) : text[i] \in WhiteSpace)
                  => trim(toLowerCase(text)) = <<>>
        /\ \A hotel \in Members(hotels) :
              /\ passesSearch(hotel, filters) <=>
                    \/ filters.search = <<>>
                    \/ IsSubstring(filters.search, Glued(SearchFields(hotel), sep))
              /\ hotel \in Members(filteredHotels) =>
                    \/ filters.search = <<>>
                    \/ IsSubstring(filters.search, Glued(SearchFields(hotel), sep))
              /\ "nearbyAttractions" \notin DOMAIN hotel =>
                    ( passesSearch(hotel, filters) <=>
                      passesSearch([x \in DOMAIN hotel \cup {"nearbyAttractions"} |->
                                       IF x = "nearbyAttractions" THEN <<>>
                                       ELSE hotel[x]],
                                   filters) )

(***************************************************************************)
(* C8 as stated.  The committed search string is the input lowercased and  *)
(* trimmed; an empty or whitespace-only input constrains nothing;          *)
(* otherwise a record passes iff the string is a substring of the          *)
(* lowercased concatenation of name, location, region, description and     *)
(* nearby attractions; an absent nearbyAttractions counts as an empty      *)
(* list.                                                                   *)
(***************************************************************************)
C8_SubstringOfConcatenation == SearchAgrees(<<>>)

(***************************************************************************)
(* C8 as amended.  ... a record passes iff the string is a substring of    *)
(* the lowercased name, location, region, description and nearby           *)
(* attractions joined by single spaces; the rest as stated.                *)
(***************************************************************************)
C8_SubstringOfJoinedFields == SearchAgrees(<<" ">>)

\* " A B " was typed and committed as "a b": one record matches across the
\* boundary of name and location, one inside an attraction, and the record
\* without attractions is evaluated and left out
C8_Witness ==
    /\ Ready("full")
    /\ controls.searchInput = <<" ", "A", " ", "B", " ">>
    /\ filters.search = <<"a", " ", "b">>
    /\ HotelLago \in Members(filteredHotels)
    /\ HotelMonte \in Members(filteredHotels)
    /\ HotelPampa \in Members(hotels)
    /\ HotelPampa \notin Members(filteredHotels)

(***************************************************************************)
(* C9.  Lazy image loading: an image registered with the watcher does not  *)
(* start fetching its real source before the watcher first reports it      *)
(* intersecting; on that report the fetch starts and the image is          *)
(* deregistered; a non-intersecting report changes nothing; so each        *)
(* registered image starts its fetch at most once.                         *)
(***************************************************************************)
C9_LazyFetchAtMostOnce ==
    /\ [](phase = "ready" /\ hasObserver =>
            \A i \in DOMAIN grid :
                /\ grid[i].fetches <= 1
                /\ grid[i].observed <=> grid[i].fetches = 0)
    /\ [][hasObserver =>
            \A i \in DOMAIN grid :
                /\ (i \in DOMAIN grid' /\ grid'[i].fetches > grid[i].fetches) =>
                      /\ grid[i].observed
                      /\ ObserverReport(i, TRUE)
                /\ ObserverReport(i, TRUE) =>
                      /\ grid'[i].fetches = grid[i].fetches + 1
                      /\ ~grid'[i].observed
                /\ ObserverReport(i, FALSE) => grid' = grid
         ]_vars

\* one image has been reported intersecting and fetched, another is still
\* registered and has fetched nothing
C9_Witness ==
    /\ phase = "ready"
    /\ hasObserver
    /\ \E i, j \in DOMAIN grid :
          /\ grid[i].fetches = 1 /\ ~grid[i].observed
          /\ grid[j].fetches = 0 /\ grid[j].observed

\* the subset a page's configuration selects, in the order loaded
Selected(hs, f) ==
    IF variant = "full" THEN Matching(hs, f)
    ELSE SelectSeq(hs, LAMBDA hotel : f.macroZone \in {"", hotel.macroZone})

(***************************************************************************)
(* C10.  Without IntersectionObserver every card's image starts loading    *)
(* its real source when the card is created, exactly once per card and     *)
(* never registered; and filtering and rendering are as with the watcher:  *)
(* in either mode every recomputation yields the same subset of the same   *)
(* configuration, and the grid, the count line and the empty state show    *)
(* that subset.                                                            *)
(***************************************************************************)
C10_FallbackLoadsAtOnce ==
    /\ [](phase = "ready" /\ ~hasObserver =>
            \A i \in DOMAIN grid : grid[i].fetches = 1 /\ ~grid[i].observed)
    /\ [](phase = "ready" =>
            /\ GridShows(grid, filteredHotels)
            /\ resultsCount.text = countText(Len(filteredHotels))
            /\ emptyState = (Len(filteredHotels) = 0))
    /\ [][(RunsApplyFilters \/ \E zone \in options.zones : ZoneClick(zone))
             => filteredHotels' = Selected(hotels, filters')]_vars

\* no watcher: a filter has been applied and each card shown has loaded once
C10_Witness ==
    /\ Ready("full")
    /\ ~hasObserver
    /\ filters.region # <<>>
    /\ Len(grid) >= 2
    /\ Len(grid) < Len(hotels)
    /\ \A i \in DOMAIN grid : grid[i].fetches = 1 /\ ~grid[i].observed

\* init() ends in its catch in this step
InitFails == phase = "loading" /\ phase' \notin {"loading", "ready"}

\* nothing that init() renders from the records is in the page
NothingRendered(g, o) ==
    /\ g = <<>>
    /\ o = [regions |-> {}, amenities |-> {}, destinos |-> {}, zones |-> {}]

(***************************************************************************)
(* C11.  If the data load fails, initialization stops: the error message   *)
(* is shown in the result-count area, no hotel card, region option,        *)
(* amenity checkbox or destination card is rendered, the loading indicator *)
(* is hidden, and no filter event listener is installed, so that no input  *)
(* event is handled on the failed page.                                    *)
(***************************************************************************)
C11_FailureStopsInit ==
    [][/\ InitFails =>
             /\ resultsCount'.text \in
                   {"Error al cargar hoteles. Por favor recarga la página.",
                    "Error al cargar. Intenta de nuevo."}
             /\ NothingRendered(grid', options')
             /\ ~loading'
             /\ ~ListenersInstalled'
       /\ phase \in {"failed", "aborted"} =>
             \A ch \in Channels : ~InputEvent(ch)
      ]_vars

(***************************************************************************)
(* C12.  The full record set is written exactly once, when the load        *)
(* completes; afterwards no step (a recomputation, a render, a reset, an   *)
(* input handler, a timer or observer callback, the overlay) changes its   *)
(* contents or its order.                                                  *)
(***************************************************************************)
C12_CatalogWrittenOnce ==
    [][/\ hotels' # hotels => phase = "loading" /\ phase' = "ready"
       /\ phase # "loading" => hotels' = hotels
      ]_vars

\* a loaded page on which a region and a price are committed, a search is
\* pending and the subset is a proper part of the set as loaded
C12_Witness ==
    /\ Ready("full")
    /\ hotels \in Catalogs
    /\ filters.region # <<>>
    /\ filters.maxPrice # DefaultMaxPrice
    /\ timeouts.search = 1
    /\ Len(filteredHotels) < Len(hotels)

\* a step of main.js in which renderHotels runs: the end of init(), or a
\* run of applyFilters on an array
RendersFull ==
    /\ variant = "full"
    /\ \/ phase = "loading" /\ phase' = "ready"
       \/ phase # "aborted" /\ RunsApplyFilters

(***************************************************************************)
(* C13.  After every render in main.js the header, the empty-state         *)
(* indicator and the grid agree with the filtered subset: 0 records give   *)
(* the no-results message, the indicator shown and an empty grid; 1 record *)
(* the singular phrasing; n >= 2 the plural phrasing with the literal n;   *)
(* and n >= 1 the indicator hidden and one card per record, in order.      *)
(***************************************************************************)
C13_HeaderAgreesWithSubset ==
    [][RendersFull =>
          LET n == Len(filteredHotels')
          IN  /\ n = 0 => /\ resultsCount'.text = "No se encontraron hoteles"
                          /\ emptyState'
                          /\ grid' = <<>>
              /\ n = 1 => resultsCount'.text = "1 hotel encontrado"
              /\ n >= 2 => resultsCount'.text
                              = ToString(n) \o " hoteles encontrados"
              /\ n >= 1 => /\ ~emptyState'
                           /\ GridShows(grid', filteredHotels')
      ]_vars

\* a loaded page filtered down to one record, shown with the singular header
C13_Witness ==
    /\ Ready("full")
    /\ Len(hotels) >= 2
    /\ Len(filteredHotels) = 1
    /\ resultsCount.text = "1 hotel encontrado"
    /\ ~emptyState
    /\ Len(grid) = 1

\* the announcement the pluralization rule prescribes for n results
Announcement(n) ==
    IF n = 0 THEN "No hay hoteles que coincidan con tus filtros actuales"
    ELSE IF n = 1 THEN "Se encontró 1 hotel que coincide con tus filtros"
    ELSE "Se encontraron " \o ToString(n)
            \o " hoteles que coinciden con tus filtros"

(***************************************************************************)
(* C14.  Every completed recomputation emits exactly one live-region       *)
(* announcement describing the new result count by the zero / singular /   *)
(* plural rule, for every result count including zero.                    *)
(***************************************************************************)
C14_AnnouncesEveryRecomputation ==
    [][(Ready("full") /\ RunsApplyFilters) =>
          /\ announcers'.count = announcers.count + 1
          /\ announcers'.last = Announcement(Len(filteredHotels'))
      ]_vars

Renders ==
    \/ phase = "loading" /\ phase' = "ready"
    \/ phase # "aborted" /\ RunsApplyFilters
    \/ \E zone \in options.zones : ZoneClick(zone)

\* what one render of the subset fh puts into an empty page: a new card per
\* record, the header, the empty-state indicator
Rendered(fh) ==
    [grid |-> [i \in 1..Len(fh) |-> createHotelCard(fh[i])],
     header |-> countText(Len(fh)),
     empty |-> (Len(fh) = 0)]

(***************************************************************************)
(* C16.  Rendering is an idempotent full replace: whatever the page showed *)
(* before, after a render the grid, the header and the empty-state         *)
(* indicator are what one render of the subset on an empty page gives, so  *)
(* a second render of the same subset leaves the same content as the       *)
(* first, and no card of an earlier render stays in the grid.              *)
(***************************************************************************)
C16_RenderIdempotent ==
    [][Renders =>
          [grid |-> grid', header |-> resultsCount'.text, empty |-> emptyState']
             = Rendered(filteredHotels')
      ]_vars

\* the whole set was rendered at load and again by resetFilters, which ran
\* after the pending search event (it emptied the box); images of the first
\* render had been fetched or not, the cards on screen are new
C16_Witness ==
    /\ Ready("full")
    /\ hasObserver
    /\ Len(hotels) >= 2
    /\ filteredHotels = hotels
    /\ filters = defaultFilters
    /\ timeouts.search = 1
    /\ pendingInput.search.value # <<>>
    /\ controls.searchInput = <<>>
    /\ Len(grid) = Len(hotels)
    /\ \A i \in DOMAIN grid : grid[i].observed /\ grid[i].fetches = 0

\* the step changes no field of the configuration other than `field'
OnlyField(field) ==
    /\ DOMAIN filters' = DOMAIN filters
    /\ \A other \in DOMAIN filters \ {field} : filters'[other] = filters[other]

(***************************************************************************)
(* C17.  The filter configuration starts at the defaults (empty search,    *)
(* empty region, maxPrice 2500, empty amenity set) and each interaction    *)
(* changes one field only: a search commit the search, a region selection  *)
(* or a destination click the region, a price input maxPrice, an amenity   *)
(* toggle the amenity set, by adding or removing exactly the toggled tag;  *)
(* a keystroke in the search box and the price timeout change none.        *)
(***************************************************************************)
C17_OneFieldPerInteraction ==
    /\ [](variant = "full" /\ phase = "loading" =>
             filters = [search |-> <<>>, region |-> <<>>, maxPrice |-> 2500,
                        amenities |-> {}])
    /\ [][variant = "full" =>
            /\ SearchTimeout => OnlyField("search")
            /\ \A region \in options.regions \cup {<<>>} :
                  RegionChange(region) =>
                     OnlyField("region") /\ filters'.region = region
            /\ \A region \in options.destinos :
                  DestinoClick(region) =>
                     OnlyField("region") /\ filters'.region = region
            /\ \A position \in PriceInputs :
                  PriceInput(position) => OnlyField("maxPrice")
            /\ \A amenity \in options.amenities :
                  AmenityChange(amenity) =>
                     /\ OnlyField("amenities")
                     /\ filters'.amenities # filters.amenities
                     /\ filters'.amenities \in
                           {filters.amenities \cup {amenity},
                            filters.amenities \ {amenity}}
            /\ (FilterTimeout \/ \E text \in SearchInputs \cup {<<>>} :
                                    SearchInput(text))
                  => filters' = filters
         ]_vars

\* every field has been changed by its own interaction
C17_Witness ==
    /\ Ready("full")
    /\ filters.search = <<"a", " ", "b">>
    /\ filters.region = <<"S">>
    /\ filters.maxPrice = 300
    /\ filters.amenities = {"spa"}

\* a resetFilters step resets the configuration and every control, and
\* recomputes and renders in the same step
ResetEffect ==
    /\ filters' = [search |-> <<>>, region |-> <<>>, maxPrice |-> 2500,
                   amenities |-> {}]
    /\ controls' = [searchInput |-> <<>>, regionSelect |-> <<>>,
                    priceRange |-> <<"2", "5", "0", "0">>,
                    priceValue |-> <<"$", "2", ",", "5", "0", "0">>,
                    checked |-> {}]
    /\ filteredHotels' = Matching(hotels, filters')
    /\ GridShows(grid', filteredHotels')
    /\ resultsCount'.text =
          (IF Len(filteredHotels') = 0 THEN "No se encontraron hoteles"
           ELSE IF Len(filteredHotels') = 1 THEN "1 hotel encontrado"
           ELSE ToString(Len(filteredHotels')) \o " hoteles encontrados")
    /\ emptyState' = (Len(filteredHotels') = 0)

(***************************************************************************)
(* C18.  resetFilters returns the filter configuration to the defaults,    *)
(* resets every input control to its default (all amenity checkboxes       *)
(* unchecked), and recomputes and re-renders the filtered subset in the    *)
(* same step, from any reachable state.                                    *)
(***************************************************************************)
C18_ResetFromAnyState ==
    [][ResetFilters => ResetEffect]_vars

\* one of the three dismissing actions is taken on the open overlay
Dismisses ==
    /\ ~overlay.hidden
    /\ (CloseClick \/ BackdropClick \/ EscapeKey)

(***************************************************************************)
(* C19.  Whenever the overlay of the simplified page is open, the close    *)
(* control, a click on the backdrop and Escape are each available and each *)
(* leaves it closed; Escape changes nothing while it is closed; and none   *)
(* of the three changes the filter configuration or the filtered subset.   *)
(***************************************************************************)
C19_OverlayDismissible ==
    /\ [](~overlay.hidden =>
             /\ ENABLED CloseClick
             /\ ENABLED BackdropClick
             /\ ENABLED EscapeKey)
    /\ [][/\ Dismisses => overlay'.hidden
          /\ (CloseClick \/ BackdropClick \/ EscapeKey) =>
                UNCHANGED <<filters, filteredHotels, grid, hotels>>
          /\ (EscapeKey /\ overlay.hidden) => overlay' = overlay
         ]_vars

\* the overlay was opened on a record and has been dismissed
C19_Witness ==
    /\ Ready("simple")
    /\ overlay.hidden
    /\ overlay.body # ""
    /\ filters.macroZone # ""

(***************************************************************************)
(* C20.  When the overlay is closed, keyboard focus is returned to the     *)
(* card whose activation opened it.                                        *)
(***************************************************************************)
C20_FocusReturnsToOpener ==
    [][Dismisses => overlay'.focus = overlay.opener]_vars

\* the plain-text status messages of the two pages
ErrorMessages ==
    {"Error al cargar hoteles. Por favor recarga la página.",
     "Error al cargar. Intenta de nuevo."}

(***************************************************************************)
(* C21.  Whenever initialization fails, for whatever reason (the load      *)
(* fails, or an expected mount point is absent), the result-count area     *)
(* shows the plain-text status message when init() has ended: no failure   *)
(* ends with neither results nor an error message on the page.             *)
(***************************************************************************)
C21_FailureAlwaysShown ==
    [][InitFails =>
          /\ resultsCount'.text \in ErrorMessages
          /\ grid' # <<>> \/ resultsCount'.text # ""
      ]_vars

\* mount points that neither the load of the records nor the results grid
\* and the result count use
IndependentMounts == {"destinosGrid", "loading", "amenitiesContainer"}

\* the page shows the records of fh: one card each, and their count
ShowsResults(fh) ==
    /\ GridShows(grid, fh)
    /\ resultsCount.text =
          (IF Len(fh) = 1 THEN "1 hotel encontrado"
           ELSE ToString(Len(fh)) \o " hoteles encontrados")

(***************************************************************************)
(* C22.  An absent mount point is fatal only to the feature that uses it:  *)
(* on a page of main.js that lacks the destination grid, the loading       *)
(* indicator or the amenities container, the records can still be loaded,  *)
(* and when a well-formed document arrives init() leaves the records       *)
(* loaded and the results grid and the result count rendered.              *)
(***************************************************************************)
C22_AbsentMountIsolated ==
    /\ [](variant = "full" /\ phase = "loading" /\ absent \subseteq IndependentMounts
            => \A catalog \in Catalogs : ENABLED LoadFull(catalog))
    /\ [][\A catalog \in Catalogs :
             (LoadFull(catalog) /\ absent \subseteq IndependentMounts) =>
                 /\ hotels' = catalog
                 /\ ShowsResults(catalog)'
         ]_vars

\* the step changes the i-th card only, and nothing else of the page or of
\* the engine
OnlyCard(i) ==
    /\ DOMAIN grid' = DOMAIN grid
    /\ \A j \in DOMAIN grid \ {i} : grid'[j] = grid[j]
    /\ grid'[i].hotel = grid[i].hotel
    /\ UNCHANGED <<hotels, filteredHotels, filters, controls, options,
                   resultsCount, emptyState, loading, announcers, timerVars>>

(***************************************************************************)
(* C23.  A failed image load is absorbed locally (main.js): it marks only  *)
(* that image as degraded and keeps its placeholder, the real source never *)
(* being swapped into a degraded image, and it leaves the configuration,   *)
(* the filtered subset, the header and every other card as they were; a    *)
(* successful load marks only that image as loaded.                        *)
(***************************************************************************)
C23_ImageFailureLocal ==
    /\ [](variant = "full" =>
             \A i \in DOMAIN grid : grid[i].degraded => grid[i].src = "placeholder")
    /\ [][variant = "full" =>
            \A i \in DOMAIN grid :
               /\ ImageFailed(i) =>
                     /\ grid'[i].degraded
                     /\ grid'[i].src = "placeholder"
                     /\ OnlyCard(i)
               /\ ImageLoaded(i) =>
                     /\ grid'[i].src = "real"
                     /\ ~grid'[i].degraded
                     /\ OnlyCard(i)
               /\ (i \in DOMAIN grid' /\ grid'[i].degraded /\ ~grid[i].degraded)
                     => ImageFailed(i)
         ]_vars

\* of the cards on screen under a filter, one image has failed and another
\* has loaded
C23_Witness ==
    /\ Ready("full")
    /\ filters.region # <<>>
    /\ \E i, j \in DOMAIN grid :
          /\ grid[i].degraded /\ grid[i].src = "placeholder"
          /\ grid[j].src = "real" /\ ~grid[j].degraded

\* the fields of a record the engine reads without a default
ReadFields ==
    {"name", "location", "region", "description", "nightlyRate", "amenities"}

\* the records of hs that have them all
WellFormed(hs) == {hs[i] : i \in {k \in 1..Len(hs) : ReadFields \subseteq DOMAIN hs[k]}}

\* the cards on screen
OnScreen(g) == {g[i].hotel : i \in 1..Len(g)}

(***************************************************************************)
(* C24.  One malformed record (here: no amenities) in an otherwise valid   *)
(* document does not abort initialization or the rendering of the others:  *)
(* when the document arrives init() completes with every record loaded and *)
(* every well-formed record on screen, and every later recomputation       *)
(* leaves the well-formed records of the new subset on screen.             *)
(***************************************************************************)
C24_MalformedRecordIsolated ==
    [][absent = {} =>
         /\ \A catalog \in MalformedCatalogs :
               (LoadFull(catalog) \/ LoadSimple(catalog)) =>
                  /\ phase' = "ready"
                  /\ hotels' = catalog
                  /\ WellFormed(catalog) \subseteq OnScreen(grid')
         /\ (hotels \in MalformedCatalogs /\ RunsApplyFilters) =>
               WellFormed(filteredHotels') \subseteq OnScreen(grid')
      ]_vars

\* the record fields whose values are text of the document
TextFields ==
    {"id", "name", "location", "region", "description", "image", "amenities",
     "nearbyAttractions"}

\* every interpolation of a text field in the template is escaped
Escaped(template) ==
    \A s \in template : s.field \in TextFields => s.via = "escapeHtml"

(***************************************************************************)
(* C25.  Every record field inserted into generated markup (id, name,      *)
(* location, region, description, image URL, amenity tags, nearby          *)
(* attractions) passes through the escaping function first: no hotel card  *)
(* on screen, no destination card and no overlay body was generated by     *)
(* interpolating such a field raw.                                         *)
(***************************************************************************)
C25_FieldsEscaped ==
    /\ \A i \in DOMAIN grid : Escaped(cardTemplate(grid[i].hotel))
    /\ options.destinos # {} => Escaped(destinoTemplate)
    /\ ~overlay.hidden =>
          \A i \in DOMAIN hotels :
              hotels[i].id = overlay.body => Escaped(modalTemplate(hotels[i]))

NoDuplicates(seq) ==
    \A j, k \in DOMAIN seq : j # k => seq[j] # seq[k]

\* the number of distinct tags of a record beyond the previewed five
DistinctBeyondPreview(hotel) ==
    IF Cardinality(AmenitySet(hotel)) > 5
    THEN Cardinality(AmenitySet(hotel)) - 5
    ELSE 0

(***************************************************************************)
(* C26.  Duplicate amenity tags within a record are de-duplicated: the     *)
(* filter list offers each distinct tag of the loaded records once, the    *)
(* preview of every card on screen shows no tag twice, and the "+N" tag of *)
(* a card counts the record's distinct tags beyond the fifth.              *)
(***************************************************************************)
C26_AmenitiesDeduplicated ==
    Ready("full") =>
        /\ options.amenities =
              UNION {AmenitySet(hotels[i]) : i \in DOMAIN hotels}
        /\ \A i \in DOMAIN grid :
              /\ NoDuplicates(amenityPreview(grid[i].hotel).tags)
              /\ amenityPreview(grid[i].hotel).more
                    = DistinctBeyondPreview(grid[i].hotel)

\* the configuration the four controls show
ShownConfiguration ==
    [search |-> trim(Lowered(controls.searchInput)),
     region |-> controls.regionSelect,
     maxPrice |-> parseInt(controls.priceRange),
     amenities |-> controls.checked]

NoDebouncePending == \A channel \in Channels : timeouts[channel] = 0

(***************************************************************************)
(* C27.  Consistency once input has settled: after a successful load,      *)
(* whenever no debounce timer is pending (the state the page comes to when *)
(* the visitor stops producing input and the pending timers have fired),   *)
(* the filtered subset is exactly the loaded records that match the values *)
(* the four controls show, and the grid shows that subset.                 *)
(***************************************************************************)
C27_SettledConsistent ==
    Ready("full") /\ NoDebouncePending =>
        /\ filteredHotels = Matching(hotels, ShownConfiguration)
        /\ GridShows(grid, filteredHotels)

(***************************************************************************)
(* C28.  In the simplified variant, activating a card of the grid opens    *)
(* the overlay with exactly that card's record in its body, whether or not *)
(* the record has nearbyAttractions; a click on a card's call-to-action    *)
(* link leaves the overlay as it was, closed or open with the same body;   *)
(* and while the overlay stays open its body changes only by the           *)
(* activation of a card, so that it shows the record activated last.       *)
(***************************************************************************)
C28_ActivationOpensRecord ==
    [][/\ \A i \in DOMAIN grid :
             /\ CardActivate(i) =>
                   /\ ~overlay'.hidden
                   /\ overlay'.body = grid[i].hotel.id
             /\ CtaClick(i) =>
                   /\ overlay'.hidden = overlay.hidden
                   /\ overlay'.body = overlay.body
       /\ (~overlay'.hidden /\ ~\E i \in DOMAIN grid : CardActivate(i))
             => /\ ~overlay.hidden
                /\ overlay'.body = overlay.body]_vars

(***************************************************************************)
(* C29.  In main.js the subset rendered by a successful load is the one    *)
(* applyFilters produces under the default configuration: the loaded       *)
(* records that match the defaults, shown in the grid; and resetFilters on *)
(* the loaded page produces and shows that same subset.  This is to hold   *)
(* for every record set, one with a rate above the default ceiling too.    *)
(***************************************************************************)
C29_InitialRenderIsDefault ==
    [][variant = "full" =>
         /\ (phase = "loading" /\ phase' = "ready") =>
               /\ filteredHotels' = Matching(hotels', defaultFilters)
               /\ GridShows(grid', filteredHotels')
         /\ (phase = "ready" /\ ResetFilters) =>
               /\ filteredHotels' = Matching(hotels, defaultFilters)
               /\ GridShows(grid', filteredHotels')]_vars

\* the step recomputes the subset under the configuration it leaves, and
\* renders it
Recomputes ==
    /\ filteredHotels' = Matching(hotels, filters')
    /\ GridShows(grid', filteredHotels')

\* a region selection or an amenity toggle is handled in this step
DiscreteChange ==
    \/ \E region \in options.regions \cup {<<>>} : RegionChange(region)
    \/ \E amenity \in options.amenities : AmenityChange(amenity)

(***************************************************************************)
(* C30.  The two debounced channels commit differently.  A price input     *)
(* writes filters.maxPrice at the event and defers only the recomputation; *)
(* a search input writes nothing to the configuration, and its timeout     *)
(* writes filters.search from the box when it runs.  So a region or        *)
(* amenity change made while both timers are pending recomputes at once    *)
(* under the price the slider shows and the search text committed before,  *)
(* leaves both timers pending, and each timeout that then runs recomputes  *)
(* once more.                                                              *)
(***************************************************************************)
C30_ChannelsCommitDifferently ==
    [][/\ \A position \in PriceInputs :
             PriceInput(position) =>
                /\ filters' = [filters EXCEPT !.maxPrice = parseInt(position)]
                /\ timeouts'.filter = 1
                /\ NoRecomputation
       /\ \A text \in SearchInputs \cup {<<>>} :
             SearchInput(text) =>
                /\ filters' = filters
                /\ timeouts'.search = 1
                /\ NoRecomputation
       /\ (Ready("full") /\ timeouts.search > 0 /\ timeouts.filter > 0
              /\ DiscreteChange) =>
                /\ filters'.search = filters.search
                /\ filters'.maxPrice = parseInt(controls.priceRange)
                /\ Recomputes
                /\ timeouts' = timeouts
       /\ (Ready("full") /\ TimeoutRuns("search")) =>
                /\ filters' = [filters EXCEPT
                                 !.search = trim(Lowered(controls.searchInput))]
                /\ timeouts' = [timeouts EXCEPT !.search = @ - 1]
                /\ Recomputes
       /\ (Ready("full") /\ TimeoutRuns("filter")) =>
                /\ filters' = filters
                /\ timeouts' = [timeouts EXCEPT !.filter = @ - 1]
                /\ Recomputes
      ]_vars

\* both timers are pending, each for one event; a region or an amenity was
\* chosen since, and the subset on screen is the one for the new price,
\* which excludes a record, and the text committed before, not the one for
\* the text in the box
C30_Witness ==
    /\ Ready("full")
    /\ timeouts = [search |-> 1, filter |-> 1]
    /\ pendingInput.search.events = "one"
    /\ pendingInput.filter.events = "one"
    /\ filters.maxPrice = 300
    /\ filters.search = <<>>
    /\ trim(Lowered(controls.searchInput)) = <<"a", " ", "b">>
    /\ filters.region # <<>> \/ filters.amenities # {}
    /\ filteredHotels = Matching(hotels, filters)
    /\ filteredHotels # Matching(hotels, ShownConfiguration)
    /\ \E i \in DOMAIN hotels : hotels[i].nightlyRate > filters.maxPrice

\* the page as resetFilters leaves it: configuration and controls at their
\* defaults, the subset the one computed under the defaults
AsReset ==
    /\ filters = defaultFilters
    /\ controls = defaultControls
    /\ filteredHotels = Matching(hotels, defaultFilters)
    /\ GridShows(grid, filteredHotels)

(***************************************************************************)
(* C31.  resetFilters on the loaded page of main.js leaves the pending     *)
(* debounce timeouts pending and the page at the defaults; and a timeout   *)
(* that runs while the page is as the reset left it (no input since)       *)
(* recomputes and leaves it so: the configuration still the defaults, the  *)
(* filtered subset still the one the reset computed.                       *)
(***************************************************************************)
C31_ResetNotUndone ==
    [][Ready("full") =>
         /\ ResetFilters =>
               /\ timeouts' = timeouts
               /\ AsReset'
         /\ (AsReset /\ \E channel \in Channels : TimeoutRuns(channel)) =>
               /\ Recomputes
               /\ AsReset'
               /\ filteredHotels' = filteredHotels]_vars

\* the reset ran after a search input and a price input whose timeouts are
\* still pending: the box and the slider are back at their defaults, the
\* events carried other values, and the subset leaves a record out
C31_Witness ==
    /\ Ready("full")
    /\ AsReset
    /\ timeouts = [search |-> 1, filter |-> 1]
    /\ trim(Lowered(pendingInput.search.value)) = <<"a", " ", "b">>
    /\ pendingInput.filter.value = <<"3", "0", "0">>
    /\ Len(filteredHotels) < Len(hotels)

====
